---- MODULE Spec2Model ----
(***************************************************************************)
(* A model of src/app.ts: the rule checkers of the square colouring game,  *)
(* the validator, move application, the naive completion heuristic, the    *)
(* negation-based move finder and the iterative solver.                    *)
(*                                                                         *)
(* A Row is a sequence of colours; index i of the source (0-based) is      *)
(* element i + 1 of the sequence.  Every index that a result reports is    *)
(* the 0-based index of the source.                                        *)
(***************************************************************************)
EXTENDS Integers, Sequences, FiniteSets, TLC

VARIABLES
  board,         \* the caller's board object, as it is now
  inputAtCall,   \* the value of that board when the operation was called
  arg,           \* the Move (playMove) or the Move list (playMoves) passed
  pc,            \* where the running operation is
  out,           \* what the operation returned
  currentBoard,  \* trySolveByNegation: currentBoard
  moves,         \* trySolveByNegation: moves
  nextMove,      \* trySolveByNegation: nextMove
  moveCount,     \* trySolveByNegation: moveCount
  findCalls,     \* number of calls of findMoveByNegation made so far
  updatedBoard,  \* playMoves: updatedBoard
  moveIndex      \* playMoves: index of the next move of the list

vars == <<board, inputAtCall, arg, pc, out, currentBoard, moves, nextMove,
          moveCount, findCalls, updatedBoard, moveIndex>>

\* ------------------------------------------------------------------ bounds
MaxSide == 4
MaxCells == 9
MaxMoves == 2
MaxFilled == 3
MaxFilledRect == 2

\* ------------------------------------------------------------------ values
Red == "R"
Blue == "B"
Grey == "G"
\* what row[column] yields when column is past the end of the row
Undefined == "U"

Colors == {Red, Blue, Grey}

ThriceRepetition == "Thrice Repetition"
OverSaturation == "No Over Saturation"
LineRepetition == "Line Repetition"

\* the value null, and the outcome "a TypeError was thrown"
NULL == [rule |-> "null"]
THROW == [rule |-> "TypeError"]

\* ------------------------------------------------------------------ grid
\* an array built by map or a spread: the sequence of its elements, all
\* computed when the array is built
array(elements) == <<>> \o elements

\* const name = value; rest: the value is computed once, and rest uses it by
\* its name
bind(value, rest(_)) == CHOOSE result \in {rest(name) : name \in {value}} : TRUE

rows(grid) == grid

columns(grid) ==
  array([column \in 1..Len(grid) |->
     array([r \in 1..Len(grid) |->
        IF column <= Len(grid[r]) THEN grid[r][column] ELSE Undefined])])

\* ------------------------------------------------------ Thrice Repetition
isThriceNoGreyTest(c1, c2, c3) == c1 = c2 /\ c1 = c3

isThrice(c1, c2, c3) == c1 # Grey /\ c1 = c2 /\ c1 = c3

RECURSIVE findThriceRepetitionRowFrom(_, _)
\* the loop of findThriceRepetitionRow from 0-based position index on
findThriceRepetitionRowFrom(row, index) ==
  IF index >= Len(row) THEN NULL
  ELSE IF index < 2 THEN findThriceRepetitionRowFrom(row, index + 1)
  ELSE IF isThrice(row[index - 1], row[index], row[index + 1])
       THEN [columns |-> <<index - 2, index - 1, index>>, color |-> row[index - 1]]
       ELSE findThriceRepetitionRowFrom(row, index + 1)

findThriceRepetitionRow(row) == findThriceRepetitionRowFrom(row, 0)

RECURSIVE findThriceRepetitionLines(_, _, _)
\* one of the two loops of findThriceRepetition, over lines from index on
findThriceRepetitionLines(lines, kind, index) ==
  IF index >= Len(lines) THEN NULL
  ELSE bind(findThriceRepetitionRow(lines[index + 1]), LAMBDA violation :
         IF violation # NULL
         THEN IF kind = "row"
              THEN [rule |-> ThriceRepetition, row |-> index,
                    columns |-> violation.columns, color |-> violation.color]
              ELSE [rule |-> ThriceRepetition, column |-> index,
                    rows |-> violation.columns, color |-> violation.color]
         ELSE findThriceRepetitionLines(lines, kind, index + 1))

findThriceRepetition(grid) ==
  bind(findThriceRepetitionLines(rows(grid), "row", 0), LAMBDA rowViolation :
    IF rowViolation # NULL THEN rowViolation
    ELSE bind(columns(grid), LAMBDA lines :
           findThriceRepetitionLines(lines, "column", 0)))

\* ------------------------------------------------------- position vectors
RECURSIVE positionsFrom(_, _, _)
positionsFrom(row, color, index) ==
  IF index >= Len(row) THEN <<>>
  ELSE IF row[index + 1] = color
       THEN <<index>> \o positionsFrom(row, color, index + 1)
       ELSE positionsFrom(row, color, index + 1)

\* positions[color].push(index) on a colour that is no key of the
\* accumulator (the undefined value) throws a TypeError
positionVectorsThrows(row) == \E i \in 1..Len(row) : row[i] \notin Colors

\* the object { [Red]: [...], [Blue]: [...], [Grey]: [...] }
positionVectors(row) ==
  [R |-> positionsFrom(row, Red, 0),
   B |-> positionsFrom(row, Blue, 0),
   G |-> positionsFrom(row, Grey, 0)]

\* --------------------------------------------------------- Over Saturation
overSaturatedAtHalf(count, length) == 2 * count >= length

overSaturated(count, length) == 2 * count > length

findOverSaturationRow(row) ==
  IF positionVectorsThrows(row) THEN THROW
  ELSE bind(positionVectors(row), LAMBDA vectors :
         IF overSaturated(Len(vectors[Red]), Len(row))
         THEN [positionVector |-> vectors[Red], color |-> Red]
         ELSE IF overSaturated(Len(vectors[Blue]), Len(row))
              THEN [positionVector |-> vectors[Blue], color |-> Blue]
              ELSE NULL)

RECURSIVE findOverSaturationLines(_, _, _)
findOverSaturationLines(lines, kind, index) ==
  IF index >= Len(lines) THEN NULL
  ELSE bind(findOverSaturationRow(lines[index + 1]), LAMBDA violation :
         IF violation = THROW THEN THROW
         ELSE IF violation # NULL
         THEN IF kind = "row"
              THEN [rule |-> OverSaturation, row |-> index,
                    positionVector |-> violation.positionVector,
                    color |-> violation.color]
              ELSE [rule |-> OverSaturation, column |-> index,
                    positionVector |-> violation.positionVector,
                    color |-> violation.color]
         ELSE findOverSaturationLines(lines, kind, index + 1))

findOverSaturation(grid) ==
  bind(findOverSaturationLines(rows(grid), "row", 0), LAMBDA rowViolation :
    IF rowViolation # NULL THEN rowViolation
    ELSE bind(columns(grid), LAMBDA lines :
           findOverSaturationLines(lines, "column", 0)))

\* --------------------------------------------------------- Line Repetition
Digits == <<"0", "1", "2", "3", "4", "5", "6", "7", "8", "9">>

RECURSIVE numberToString(_)
\* the decimal digits of a number, as String(n) gives them
numberToString(n) ==
  IF n < 10 THEN <<Digits[n + 1]>>
  ELSE numberToString(n \div 10) \o <<Digits[(n % 10) + 1]>>

RECURSIVE join(_, _)
\* Array.prototype.join: the elements' strings with the separator between
join(positions, separator) ==
  IF Len(positions) = 0 THEN <<>>
  ELSE IF Len(positions) = 1 THEN numberToString(positions[1])
  ELSE numberToString(positions[1]) \o <<separator>> \o join(Tail(positions), separator)

\* the template string `${name}::${vector.join(":")}`, as its characters
makeKey(name, vector) == <<name, ":", ":">> \o join(vector, ":")

\* Map.prototype.get: undefined (here NULL) for an absent key
mapGet(map, key) == IF key \in DOMAIN map THEN map[key] ELSE NULL

\* if (matchingRowIndex): undefined and 0 are both falsy
truthy(value) == value # NULL /\ value.index # 0

\* Map.prototype.set: a new entry, or a new value for the entry of the key
mapSet(map, key, index) == (key :> [index |-> index]) @@ map

emptyMap == <<>>

\* one of the two if statements of the loop of findRepeatedRows, for the
\* colour of a name: the pair to return, if any, and the map afterwards
matchColor(keyToRowIndex, name, vector, length, index) ==
  IF 2 * Len(vector) >= length
  THEN bind(makeKey(name, vector), LAMBDA key :
         bind(mapGet(keyToRowIndex, key), LAMBDA matchingRowIndex :
           IF truthy(matchingRowIndex)
           THEN [rows |-> <<matchingRowIndex.index, index>>,
                 map |-> keyToRowIndex]
           ELSE [rows |-> NULL, map |-> mapSet(keyToRowIndex, key, index)]))
  ELSE [rows |-> NULL, map |-> keyToRowIndex]

RECURSIVE findRepeatedRowsFrom(_, _, _)
\* the loop of findRepeatedRows from line index on, with the map so far
findRepeatedRowsFrom(lines, keyToRowIndex, index) ==
  IF index >= Len(lines) THEN NULL
  ELSE bind(lines[index + 1], LAMBDA row :
    IF positionVectorsThrows(row) THEN THROW
    ELSE bind(positionVectors(row), LAMBDA vectors :
      bind(matchColor(keyToRowIndex, "Red", vectors[Red], Len(row), index),
           LAMBDA red :
        IF red.rows # NULL THEN [rows |-> red.rows]
        ELSE bind(matchColor(red.map, "Blue", vectors[Blue], Len(row), index),
                  LAMBDA blue :
               IF blue.rows # NULL THEN [rows |-> blue.rows]
               ELSE findRepeatedRowsFrom(lines, blue.map, index + 1)))))

findRepeatedRows(lines) == findRepeatedRowsFrom(lines, emptyMap, 0)

findLineRepetition(grid) ==
  bind(findRepeatedRows(rows(grid)), LAMBDA rowViolation :
    IF rowViolation = THROW THEN THROW
    ELSE IF rowViolation # NULL
    THEN [rule |-> LineRepetition, rows |-> rowViolation.rows]
    ELSE bind(columns(grid), LAMBDA lines :
           bind(findRepeatedRows(lines), LAMBDA columnViolation :
             IF columnViolation = THROW THEN THROW
             ELSE IF columnViolation # NULL
             THEN [rule |-> LineRepetition, columns |-> columnViolation.rows]
             ELSE NULL)))

\* --------------------------------------------------------------- validator
validateBoardLineFirst(grid) ==
  bind(findLineRepetition(grid), LAMBDA line :
    IF line # NULL THEN line
    ELSE bind(findThriceRepetition(grid), LAMBDA thrice :
           IF thrice # NULL THEN thrice ELSE findOverSaturation(grid)))

\* a ?? b ?? c: the first operand that is not null; an operand that throws
\* ends the evaluation
validateBoard(grid) ==
  bind(findThriceRepetition(grid), LAMBDA thrice :
    IF thrice # NULL THEN thrice
    ELSE bind(findOverSaturation(grid), LAMBDA over :
           IF over # NULL THEN over ELSE findLineRepetition(grid)))

\* ----------------------------------------------------------------- game play
\* The heap is a sequence of Row objects; a Board object is the sequence of
\* the addresses of its rows.
deref(heap, b) == array([r \in 1..Len(b) |-> heap[b[r]]])

\* the board object whose rows are the first Len(board) objects of a heap
boardObject(grid) == array([r \in 1..Len(grid) |-> r])

cloneBoardShallow(heap, b) == [heap |-> heap, board |-> b]

\* board.map((row) => [...row]): a new array of new rows
cloneBoard(heap, b) ==
  [heap |-> heap \o [r \in 1..Len(b) |-> heap[b[r]]],
   board |-> array([r \in 1..Len(b) |-> Len(heap) + r])]

\* row[index] = value; writing at row.length extends the row by one
setAt(row, index, value) ==
  IF index < Len(row) THEN [row EXCEPT ![index + 1] = value]
  ELSE Append(row, value)

playMove(heap, b, move) ==
  bind(cloneBoard(heap, b), LAMBDA clone :
    bind([clone.heap EXCEPT
            ![clone.board[move.row + 1]] = setAt(@, move.column, move.color)],
         LAMBDA written :
      bind(deref(written, clone.board), LAMBDA newBoard :
        [heap |-> written,
         newBoard |-> clone.board,
         violation |-> validateBoard(newBoard)])))

\* playMove on a board held by no one else: the new board and the violation
playMoveOf(grid, move) ==
  bind(playMove(grid, boardObject(grid), move), LAMBDA played :
    [newBoard |-> deref(played.heap, played.newBoard),
     violation |-> played.violation])

\* --------------------------------------------------------- naive completion
\* totals[color] += 1; a colour that is no key of totals adds a NaN entry
\* and leaves the three counts alone
countColors(row) ==
  [R |-> Cardinality({i \in 1..Len(row) : row[i] = Red}),
   B |-> Cardinality({i \in 1..Len(row) : row[i] = Blue}),
   G |-> Cardinality({i \in 1..Len(row) : row[i] = Grey})]

naiveAutocompleteRow(row) ==
  bind(countColors(row), LAMBDA counts :
    IF 2 * counts[Red] >= Len(row)
    THEN array([i \in 1..Len(row) |-> IF row[i] = Grey THEN Blue ELSE row[i]])
    ELSE IF 2 * counts[Blue] >= Len(row)
         THEN array([i \in 1..Len(row) |-> IF row[i] = Grey THEN Red ELSE row[i]])
         ELSE row)

RECURSIVE naiveAutocompleteColumnsFrom(_, _, _)
\* the second loop of naiveAutocompleteBoard: cols is columns(newBoard) as
\* taken when the loop starts
naiveAutocompleteColumnsFrom(newBoard, cols, columnIndex) ==
  IF columnIndex >= Len(cols) THEN newBoard
  ELSE bind(naiveAutocompleteRow(cols[columnIndex + 1]), LAMBDA newColumn :
         bind(array([rowIndex \in 1..Len(newBoard) |->
                 setAt(newBoard[rowIndex], columnIndex, newColumn[rowIndex])]),
              LAMBDA written :
           naiveAutocompleteColumnsFrom(written, cols, columnIndex + 1)))

naiveAutocompleteBoard(grid) ==
  bind(array([rowIndex \in 1..Len(grid) |->
          naiveAutocompleteRow(grid[rowIndex])]),
       LAMBDA afterRows :
    bind(columns(afterRows), LAMBDA cols :
      naiveAutocompleteColumnsFrom(afterRows, cols, 0)))

\* ------------------------------------------------------------- move finder
makeMove(color, row, column) == [color |-> color, row |-> row, column |-> column]

\* const { newBoard } = playMove(board, move) and then
\* validateBoard(naiveAutocompleteBoard(newBoard)), for one candidate move
candidateViolation(grid, move) ==
  bind(playMoveOf(grid, move), LAMBDA played :
    IF played.violation = THROW THEN THROW
    ELSE bind(naiveAutocompleteBoard(played.newBoard), LAMBDA completed :
           validateBoard(completed)))

probeCellSameColor(grid, rowIndex, columnIndex) ==
  bind(candidateViolation(grid, makeMove(Red, rowIndex, columnIndex)),
       LAMBDA redViolation :
    IF redViolation = THROW THEN THROW
    ELSE IF redViolation # NULL
    THEN [move |-> makeMove(Red, rowIndex, columnIndex),
          violation |-> redViolation]
    ELSE bind(candidateViolation(grid, makeMove(Blue, rowIndex, columnIndex)),
              LAMBDA blueViolation :
           IF blueViolation = THROW THEN THROW
           ELSE IF blueViolation # NULL
           THEN [move |-> makeMove(Blue, rowIndex, columnIndex),
                 violation |-> blueViolation]
           ELSE NULL))

\* the body of the inner loop of findMoveByNegation for one empty cell
probeCell(grid, rowIndex, columnIndex) ==
  bind(candidateViolation(grid, makeMove(Red, rowIndex, columnIndex)),
       LAMBDA redViolation :
    IF redViolation = THROW THEN THROW
    ELSE IF redViolation # NULL
    THEN [move |-> makeMove(Blue, rowIndex, columnIndex),
          violation |-> redViolation]
    ELSE bind(candidateViolation(grid, makeMove(Blue, rowIndex, columnIndex)),
              LAMBDA blueViolation :
           IF blueViolation = THROW THEN THROW
           ELSE IF blueViolation # NULL
           THEN [move |-> makeMove(Red, rowIndex, columnIndex),
                 violation |-> blueViolation]
           ELSE NULL))

RECURSIVE findMoveByNegationFrom(_, _, _)
\* the two nested loops of findMoveByNegation from cell (rowIndex,
\* columnIndex) on, in row-major order
findMoveByNegationFrom(grid, rowIndex, columnIndex) ==
  IF rowIndex >= Len(grid) THEN NULL
  ELSE IF columnIndex >= Len(grid[rowIndex + 1])
       THEN findMoveByNegationFrom(grid, rowIndex + 1, 0)
  ELSE IF grid[rowIndex + 1][columnIndex + 1] # Grey
       THEN findMoveByNegationFrom(grid, rowIndex, columnIndex + 1)
  ELSE bind(probeCell(grid, rowIndex, columnIndex), LAMBDA found :
         IF found # NULL THEN found
         ELSE findMoveByNegationFrom(grid, rowIndex, columnIndex + 1))

findMoveByNegation(grid) ==
  bind(grid, LAMBDA input : findMoveByNegationFrom(input, 0, 0))

\* ------------------------------------------------------------------ inputs
GridsOf(height, width) == [1..height -> [1..width -> Colors]]

Cells(grid) == (0..(Len(grid) - 1)) \X (0..(Len(grid[1]) - 1))

\* the number of cells that are not empty
Filled(grid) ==
  Cardinality({c \in Cells(grid) : grid[c[1] + 1][c[2] + 1] # Grey})

\* the shapes (height, width) of the boards that are enumerated
Shapes ==
  {s \in (1..MaxSide) \X (1..MaxSide) : s[1] * s[2] <= MaxCells}

\* rows of the 4 x 4 boards that are enumerated: 4 is the least side at
\* which a colour can fill half of two lines without over-saturating a
\* crossing line
Palette4 ==
  {<<Grey, Grey, Grey, Grey>>, <<Red, Blue, Red, Blue>>,
   <<Blue, Red, Blue, Red>>, <<Red, Red, Grey, Grey>>,
   <<Red, Grey, Red, Grey>>, <<Grey, Blue, Grey, Red>>}

\* every square board of an enumerated shape, and the 4 x 4 boards
SquareGrids ==
  UNION {GridsOf(s[1], s[2]) : s \in {t \in Shapes : t[1] = t[2]}}
    \cup [1..4 -> Palette4]

\* the boards of every enumerated shape, square or not, with at most
\* MaxFilledRect cells filled
RectGrids ==
  UNION {{g \in GridsOf(s[1], s[2]) : Filled(g) <= MaxFilledRect} :
           s \in Shapes}

\* the in-bounds moves on a board
MovesOn(grid) ==
  {makeMove(color, c[1], c[2]) : color \in Colors, c \in Cells(grid)}

\* the boards on which single moves are tried
MoveGrids ==
  {g \in SquareGrids : Filled(g) <= MaxFilled}
    \cup [1..4 -> {<<Grey, Grey, Grey, Grey>>, <<Red, Grey, Red, Grey>>}]

\* the boards on which move lists are played: the empty square boards and
\* those with a Red top left cell
PlayGrids ==
  {g \in SquareGrids :
     /\ Len(g) * Len(g) <= MaxCells
     /\ Filled(g) <= 1
     /\ Filled(g) = 1 => g[1][1] = Red}

RECURSIVE MoveLists(_, _)
\* the lists of at most n in-bounds moves on a board
MoveLists(grid, n) ==
  IF n = 0 THEN {<<>>}
  ELSE LET shorter == MoveLists(grid, n - 1)
       IN shorter \cup {Append(l, m) : l \in {k \in shorter : Len(k) = n - 1},
                                        m \in MovesOn(grid)}

InitCommon ==
  /\ inputAtCall = board
  /\ arg = NULL
  /\ pc = "idle"
  /\ out = NULL
  /\ currentBoard = <<>>
  /\ moves = <<>>
  /\ nextMove = NULL
  /\ moveCount = 0
  /\ findCalls = 0
  /\ updatedBoard = <<>>
  /\ moveIndex = 0

\* ------------------------------------------------- the checkers, called once
Call(name, result) ==
  /\ pc = "idle"
  /\ pc' = name
  /\ out' = result
  /\ UNCHANGED <<board, inputAtCall, arg, currentBoard, moves, nextMove,
                 moveCount, findCalls, updatedBoard, moveIndex>>

CallFindThriceRepetition == Call("findThriceRepetition", findThriceRepetition(board))

CallFindOverSaturation == Call("findOverSaturation", findOverSaturation(board))

CallFindRepeatedRows == Call("findRepeatedRows", findRepeatedRows(rows(board)))

CallFindLineRepetition == Call("findLineRepetition", findLineRepetition(board))

CallValidateBoard == Call("validateBoard", validateBoard(board))

CallFindMoveByNegation == Call("findMoveByNegation", findMoveByNegation(board))

InitRules == board \in SquareGrids /\ InitCommon

NextRules ==
  \/ CallFindThriceRepetition
  \/ CallFindOverSaturation
  \/ CallFindRepeatedRows
  \/ CallFindLineRepetition
  \/ CallValidateBoard

SpecRules == InitRules /\ [][NextRules]_vars

NextFind == CallFindMoveByNegation

SpecFind == InitRules /\ [][NextFind]_vars

\* ------------------------------------------------------- playMove, called once
CallPlayMove(move) ==
  /\ pc = "idle"
  /\ \E played \in {playMove(board, boardObject(board), move)} :
       /\ board' = deref(played.heap, boardObject(board))
       /\ out' = [newBoard |-> deref(played.heap, played.newBoard),
                  violation |-> played.violation]
  /\ arg' = move
  /\ pc' = "playMove"
  /\ UNCHANGED <<inputAtCall, currentBoard, moves, nextMove, moveCount,
                 findCalls, updatedBoard, moveIndex>>

NextMove == \E move \in MovesOn(board) : CallPlayMove(move)

InitMove == board \in MoveGrids /\ InitCommon

SpecMove == InitMove /\ [][NextMove]_vars

\* ---------------------------------------------------------------- playMoves
\* let updatedBoard = cloneBoard(board)
PlayMovesStart ==
  /\ pc = "idle"
  /\ \E clone \in {cloneBoard(board, boardObject(board))} :
       /\ board' = deref(clone.heap, boardObject(board))
       /\ updatedBoard' = deref(clone.heap, clone.board)
  /\ moveIndex' = 0
  /\ pc' = "loop"
  /\ UNCHANGED <<inputAtCall, arg, out, currentBoard, moves, nextMove,
                 moveCount, findCalls>>

PlayMovesStepKeepsOldBoard ==
  /\ pc = "loop"
  /\ moveIndex < Len(arg)
  /\ \E updatedObject \in
          {array([r \in 1..Len(updatedBoard) |-> Len(board) + r])} :
     \E played \in
          {playMove(board \o updatedBoard, updatedObject, arg[moveIndex + 1])} :
       /\ board' = deref(played.heap, boardObject(board))
       /\ IF played.violation # NULL
          THEN /\ out' = [violation |-> played.violation,
                          moveIndex |-> moveIndex,
                          board |-> deref(played.heap, updatedObject)]
               /\ pc' = "done"
               /\ UNCHANGED <<updatedBoard, moveIndex>>
          ELSE /\ updatedBoard' = deref(played.heap, played.newBoard)
               /\ moveIndex' = moveIndex + 1
               /\ UNCHANGED <<out, pc>>
  /\ UNCHANGED <<inputAtCall, arg, currentBoard, moves, nextMove, moveCount,
                 findCalls>>

\* one iteration of the loop of playMoves
PlayMovesStep ==
  /\ pc = "loop"
  /\ moveIndex < Len(arg)
  /\ \E updatedObject \in
          {array([r \in 1..Len(updatedBoard) |-> Len(board) + r])} :
     \E played \in
          {playMove(board \o updatedBoard, updatedObject, arg[moveIndex + 1])} :
       /\ board' = deref(played.heap, boardObject(board))
       /\ IF played.violation # NULL
          THEN /\ out' = [violation |-> played.violation,
                          moveIndex |-> moveIndex,
                          board |-> deref(played.heap, played.newBoard)]
               /\ pc' = "done"
               /\ UNCHANGED <<updatedBoard, moveIndex>>
          ELSE /\ updatedBoard' = deref(played.heap, played.newBoard)
               /\ moveIndex' = moveIndex + 1
               /\ UNCHANGED <<out, pc>>
  /\ UNCHANGED <<inputAtCall, arg, currentBoard, moves, nextMove, moveCount,
                 findCalls>>

\* return updatedBoard
PlayMovesReturn ==
  /\ pc = "loop"
  /\ moveIndex >= Len(arg)
  /\ out' = [board |-> updatedBoard]
  /\ pc' = "done"
  /\ UNCHANGED <<board, inputAtCall, arg, currentBoard, moves, nextMove,
                 moveCount, findCalls, updatedBoard, moveIndex>>

InitMoves ==
  /\ board \in PlayGrids
  /\ inputAtCall = board
  /\ arg \in MoveLists(board, MaxMoves)
  /\ pc = "idle"
  /\ out = NULL
  /\ currentBoard = <<>>
  /\ moves = <<>>
  /\ nextMove = NULL
  /\ moveCount = 0
  /\ findCalls = 0
  /\ updatedBoard = <<>>
  /\ moveIndex = 0

NextMoves == PlayMovesStart \/ PlayMovesStep \/ PlayMovesReturn

SpecMoves == InitMoves /\ [][NextMoves]_vars

\* ------------------------------------------------------- trySolveByNegation
\* the outcome of findMoveByNegation thrown, not returned
Threw(found) == found = THROW

\* let currentBoard = cloneBoard(board);
\* let nextMove = findMoveByNegation(currentBoard)
solveStart(input) ==
  bind(cloneBoard(input, boardObject(input)), LAMBDA clone :
    bind(deref(clone.heap, clone.board), LAMBDA current :
      [board |-> deref(clone.heap, boardObject(input)),
       currentBoard |-> current,
       found |-> findMoveByNegation(current)]))

\* the statements of trySolveByNegation before its loop
SolveStart ==
  /\ pc = "idle"
  /\ \E step \in {solveStart(board)} :
       /\ board' = step.board
       /\ currentBoard' = step.currentBoard
       /\ findCalls' = findCalls + 1
       /\ IF Threw(step.found)
          THEN /\ pc' = "threw"
               /\ UNCHANGED nextMove
          ELSE /\ pc' = "loop"
               /\ nextMove' = step.found
  /\ moves' = <<>>
  /\ moveCount' = 0
  /\ UNCHANGED <<inputAtCall, arg, out, updatedBoard, moveIndex>>

loopContinuesUnbounded(next, count, grid) == next # NULL

\* the condition of the for loop: nextMove && moveCount < board.length ** 2
loopContinues(next, count, grid) ==
  next # NULL /\ count < Len(grid) * Len(grid)

violationIgnored(violation) == FALSE

\* if (violation): the move just played broke a rule
violationFound(violation) == violation # NULL

solveIterateFindsAlways(input, current, next) ==
  bind(playMove(input \o current,
                array([r \in 1..Len(current) |-> Len(input) + r]), next.move),
       LAMBDA played :
    bind(deref(played.heap, played.newBoard), LAMBDA newBoard :
      [board |-> deref(played.heap, boardObject(input)),
       newBoard |-> newBoard,
       violation |-> played.violation,
       finds |-> IF played.violation = THROW THEN 0 ELSE 1,
       found |-> IF played.violation = THROW
                 THEN NULL ELSE findMoveByNegation(newBoard)]))

\* the body of the loop: playMove(currentBoard, nextMove.move) and, unless
\* the loop is left, findMoveByNegation(currentBoard)
solveIterate(input, current, next) ==
  bind(playMove(input \o current,
                array([r \in 1..Len(current) |-> Len(input) + r]), next.move),
       LAMBDA played :
    bind(deref(played.heap, played.newBoard), LAMBDA newBoard :
      bind(played.violation = THROW \/ violationFound(played.violation),
           LAMBDA leaves :
        [board |-> deref(played.heap, boardObject(input)),
         newBoard |-> newBoard,
         violation |-> played.violation,
         finds |-> IF leaves THEN 0 ELSE 1,
         found |-> IF leaves THEN NULL ELSE findMoveByNegation(newBoard)])))

\* one iteration of the loop of trySolveByNegation
SolveIterate ==
  /\ pc = "loop"
  /\ loopContinues(nextMove, moveCount, board)
  /\ moves' = Append(moves, nextMove)
  /\ \E step \in {solveIterate(board, currentBoard, nextMove)} :
       /\ board' = step.board
       /\ findCalls' = findCalls + step.finds
       /\ IF step.violation = THROW
          THEN /\ pc' = "threw"
               /\ UNCHANGED <<out, currentBoard, nextMove, moveCount>>
          ELSE IF violationFound(step.violation)
          THEN /\ out' = [board |-> step.newBoard,
                          moves |-> moves',
                          unexpectedViolation |-> step.violation]
               /\ pc' = "done"
               /\ UNCHANGED <<currentBoard, nextMove, moveCount>>
          ELSE /\ currentBoard' = step.newBoard
               /\ IF Threw(step.found)
                  THEN /\ pc' = "threw"
                       /\ UNCHANGED <<out, nextMove, moveCount>>
                  ELSE /\ nextMove' = step.found
                       /\ moveCount' = moveCount + 1
                       /\ UNCHANGED <<out, pc>>
  /\ UNCHANGED <<inputAtCall, arg, updatedBoard, moveIndex>>

\* the return after the loop
SolveReturn ==
  /\ pc = "loop"
  /\ ~loopContinues(nextMove, moveCount, board)
  /\ out' = [board |-> currentBoard,
             moves |-> moves,
             unexpectedViolation |-> NULL]
  /\ pc' = "done"
  /\ UNCHANGED <<board, inputAtCall, arg, currentBoard, moves, nextMove,
                 moveCount, findCalls, updatedBoard, moveIndex>>

NextSolve == SolveStart \/ SolveIterate \/ SolveReturn

\* square boards
SpecSolve == InitRules /\ [][NextSolve]_vars

InitRect == board \in RectGrids /\ InitCommon

\* rectangular boards; a call that can go on does go on
SpecSolveRect == InitRect /\ [][NextSolve]_vars /\ WF_vars(NextSolve)

\* ======================================================== the properties
\* What the properties say is stated on the board itself, not by way of the
\* operators above.
ActiveColors == {Red, Blue}

\* line k (0-based) of a kind of a square board
LineOf(grid, kind, k) ==
  IF kind = "row" THEN grid[k + 1]
  ELSE [r \in 1..Len(grid) |-> grid[r][k + 1]]

LineIndexes(grid) == 0..(Len(grid) - 1)

Count(line, color) == Cardinality({i \in 1..Len(line) : line[i] = color})

PositionSet(line, color) == {i - 1 : i \in {k \in 1..Len(line) : line[k] = color}}

\* vector lists exactly the positions of the colour, ascending
IsPositionList(vector, line, color) ==
  /\ Len(vector) = Cardinality(PositionSet(line, color))
  /\ {vector[i] : i \in 1..Len(vector)} = PositionSet(line, color)
  /\ \A i \in 1..(Len(vector) - 1) : vector[i] < vector[i + 1]

Least(S) == CHOOSE x \in S : \A y \in S : x <= y

\* positions i - 2, i - 1, i (0-based) of the line hold one active colour
TripleEndsAt(line, i) ==
  /\ i >= 2 /\ i < Len(line)
  /\ line[i + 1] \in ActiveColors
  /\ line[i - 1] = line[i + 1] /\ line[i] = line[i + 1]

TripleEnds(line) == {i \in 0..(Len(line) - 1) : TripleEndsAt(line, i)}

TripleLines(grid, kind) ==
  {k \in LineIndexes(grid) : TripleEnds(LineOf(grid, kind, k)) # {}}

\* C7: findThriceRepetition reports a triple only where three consecutive
\* cells of a line hold the same active colour (so never on a triple with an
\* empty cell and never on a line shorter than 3): the least end index in
\* the least row that has one, and a column, with rows and columns swapped,
\* only if no row has one; it reports nothing if no line has one.
C7_ThriceRepetition ==
  pc = "findThriceRepetition" =>
    LET hitRows == TripleLines(board, "row")
        hitColumns == TripleLines(board, "column")
    IN IF hitRows # {}
       THEN LET r == Least(hitRows)
                i == Least(TripleEnds(LineOf(board, "row", r)))
            IN out = [rule |-> ThriceRepetition, row |-> r,
                      columns |-> <<i - 2, i - 1, i>>,
                      color |-> board[r + 1][i + 1]]
       ELSE IF hitColumns # {}
       THEN LET c == Least(hitColumns)
                i == Least(TripleEnds(LineOf(board, "column", c)))
            IN out = [rule |-> ThriceRepetition, column |-> c,
                      rows |-> <<i - 2, i - 1, i>>,
                      color |-> board[i + 1][c + 1]]
       ELSE out = NULL

\* a column is reported although a lower column is empty throughout
C7_Witness ==
  /\ pc = "findThriceRepetition"
  /\ out # NULL
  /\ out.rule = ThriceRepetition
  /\ "column" \in DOMAIN out
  /\ out.column > 0
  /\ \A r \in 1..Len(board) : board[r][1] = Grey

OverColors(line) == {c \in ActiveColors : 2 * Count(line, c) > Len(line)}

OverLines(grid, kind) ==
  {k \in LineIndexes(grid) : OverColors(LineOf(grid, kind, k)) # {}}

Balanced(line) ==
  Count(line, Red) = Count(line, Blue) /\ Count(line, Grey) = 0

\* C6: findOverSaturation reports a line exactly if an active colour fills
\* more than half of some line, never a line with as many Red as Blue cells
\* and no empty cell; it reports the least offending row, or the least
\* offending column if no row offends, with the offending colour and the
\* ascending list of all its positions in that line.
C6_OverSaturation ==
  pc = "findOverSaturation" =>
    LET overRows == OverLines(board, "row")
        overColumns == OverLines(board, "column")
    IN IF overRows # {}
       THEN LET r == Least(overRows)
                line == LineOf(board, "row", r)
            IN /\ DOMAIN out = {"rule", "row", "positionVector", "color"}
               /\ out.rule = OverSaturation
               /\ out.row = r
               /\ out.color \in OverColors(line)
               /\ IsPositionList(out.positionVector, line, out.color)
               /\ ~Balanced(line)
       ELSE IF overColumns # {}
       THEN LET c == Least(overColumns)
                line == LineOf(board, "column", c)
            IN /\ DOMAIN out = {"rule", "column", "positionVector", "color"}
               /\ out.rule = OverSaturation
               /\ out.column = c
               /\ out.color \in OverColors(line)
               /\ IsPositionList(out.positionVector, line, out.color)
               /\ ~Balanced(line)
       ELSE out = NULL

\* a column is reported on a board whose rows are all balanced
C6_Witness ==
  /\ pc = "findOverSaturation"
  /\ out # NULL
  /\ "column" \in DOMAIN out
  /\ \A r \in 1..Len(board) : Balanced(board[r])

\* C1: validateBoard returns null exactly if each of the three checkers
\* returns null on the board, and otherwise the result of the first checker
\* that reports, in the order Thrice Repetition, Over Saturation, Line
\* Repetition.
C1_ValidatePrecedence ==
  pc = "validateBoard" =>
    LET thrice == findThriceRepetition(board)
        over == findOverSaturation(board)
        line == findLineRepetition(board)
    IN /\ (out = NULL) <=> (thrice = NULL /\ over = NULL /\ line = NULL)
       /\ thrice # NULL => out = thrice
       /\ (thrice = NULL /\ over # NULL) => out = over
       /\ (thrice = NULL /\ over = NULL) => out = line

\* all three checkers report on the board that was validated
C1_Witness ==
  /\ pc = "validateBoard"
  /\ findThriceRepetition(board) # NULL
  /\ findOverSaturation(board) # NULL
  /\ findLineRepetition(board) # NULL
  /\ out.rule = ThriceRepetition

\* the active colour fills at least half of the line
Half(line, color) == 2 * Count(line, color) >= Len(line)

\* line j (1-based) repeats the shape of the colour in the earlier line i
RepeatsShape(lines, i, j, color) ==
  /\ i < j
  /\ Half(lines[i], color) /\ Half(lines[j], color)
  /\ PositionSet(lines[i], color) = PositionSet(lines[j], color)

RepeatingLines(lines) ==
  {j \in 1..Len(lines) :
     \E color \in ActiveColors : \E i \in 1..(j - 1) : RepeatsShape(lines, i, j, color)}

\* C2: findRepeatedRows reports the first line j in which an active colour
\* fills at least half of the line at the positions it has in an earlier
\* line, paired with the earliest line i, 0 <= i < j, that has the colour at
\* exactly those positions; it reports nothing if there is no such line.
C2_LineRepetition ==
  pc = "findRepeatedRows" =>
    LET lines == rows(board)
        repeating == RepeatingLines(lines)
    IN IF repeating = {} THEN out = NULL
       ELSE LET j == Least(repeating)
            IN /\ out # NULL
               /\ out.rows[2] = j - 1
               /\ \E color \in ActiveColors :
                    /\ \E i \in 1..(j - 1) : RepeatsShape(lines, i, j, color)
                    /\ out.rows[1] + 1 =
                         Least({i \in 1..(j - 1) : RepeatsShape(lines, i, j, color)})

\* the board with one cell (0-based row and column) holding the colour
Place(grid, row, column, color) ==
  array([r \in 1..Len(grid) |->
     array([c \in 1..Len(grid[r]) |->
        IF r = row + 1 /\ c = column + 1 THEN color ELSE grid[r][c]])])

\* what validating the naive completion of a candidate yields
Candidate(grid, cell, color) ==
  validateBoard(naiveAutocompleteBoard(Place(grid, cell[1], cell[2], color)))

EmptyCells(grid) == {c \in Cells(grid) : grid[c[1] + 1][c[2] + 1] = Grey}

DecisiveCells(grid) ==
  {c \in EmptyCells(grid) :
     Candidate(grid, c, Red) # NULL \/ Candidate(grid, c, Blue) # NULL}

\* row-major order of cells
Precedes(c, d) == c[1] < d[1] \/ (c[1] = d[1] /\ c[2] <= d[2])

\* C3: findMoveByNegation returns null exactly if no empty cell has a
\* candidate whose naive completion violates a rule; otherwise its move is
\* at the first such empty cell in row-major order: Blue with the violation
\* of the Red candidate if that one violates, else Red with the violation
\* of the Blue candidate.  The cell is empty and the colour is active.
C3_FindMove ==
  pc = "findMoveByNegation" =>
    LET decisive == DecisiveCells(board)
    IN IF decisive = {} THEN out = NULL
       ELSE LET cell == CHOOSE c \in decisive : \A d \in decisive : Precedes(c, d)
                red == Candidate(board, cell, Red)
            IN /\ out = IF red # NULL
                        THEN [move |-> [color |-> Blue, row |-> cell[1],
                                        column |-> cell[2]],
                              violation |-> red]
                        ELSE [move |-> [color |-> Red, row |-> cell[1],
                                        column |-> cell[2]],
                              violation |-> Candidate(board, cell, Blue)]
               /\ board[out.move.row + 1][out.move.column + 1] = Grey
               /\ out.move.color \in ActiveColors

\* Blue is forced by a Thrice Repetition of the Red candidate at a cell
\* whose Blue candidate violates nothing, after an empty cell that decided
\* nothing
C3_Witness ==
  /\ pc = "findMoveByNegation"
  /\ out # NULL
  /\ out.move.color = Blue
  /\ out.violation.rule = ThriceRepetition
  /\ Candidate(board, <<out.move.row, out.move.column>>, Blue) = NULL
  /\ \E c \in EmptyCells(board) :
       c # <<out.move.row, out.move.column>> /\ Precedes(c, <<out.move.row, out.move.column>>)

\* C9: playMove with an in-bounds move leaves its input board as it was,
\* returns a board that holds the colour of the move at the cell of the move
\* and equals the input at every other cell, and returns as violation what
\* validateBoard yields on that new board.
C9_PlayMove ==
  pc = "playMove" =>
    /\ board = inputAtCall
    /\ out.newBoard = Place(inputAtCall, arg.row, arg.column, arg.color)
    /\ out.violation = validateBoard(out.newBoard)

\* a move that changes its cell and brings a violation about
C9_Witness ==
  /\ pc = "playMove"
  /\ inputAtCall[arg.row + 1][arg.column + 1] # arg.color
  /\ validateBoard(inputAtCall) = NULL
  /\ out.violation # NULL

RECURSIVE Applied(_, _, _)
\* the board after the first n moves of a list
Applied(grid, list, n) ==
  IF n = 0 THEN grid
  ELSE Place(Applied(grid, list, n - 1), list[n].row, list[n].column, list[n].color)

\* the moves n of a list after which the board violates a rule
Violating(grid, list) ==
  {n \in 1..Len(list) : validateBoard(Applied(grid, list, n)) # NULL}

\* C8: playMoves applies the moves in order and stops at the first move
\* after which the board violates a rule: it returns the board after that
\* move, the index of the move and the violation, and applies no later
\* move.  If there is no such move it returns the board after all moves.
\* The input board is left as it was.
C8_PlayMoves ==
  pc = "done" =>
    /\ board = inputAtCall
    /\ LET violating == Violating(inputAtCall, arg)
       IN IF violating # {}
          THEN LET n == Least(violating)
               IN out = [violation |-> validateBoard(Applied(inputAtCall, arg, n)),
                         moveIndex |-> n - 1,
                         board |-> Applied(inputAtCall, arg, n)]
          ELSE out = [board |-> Applied(inputAtCall, arg, Len(arg))]

\* the list is cut short at a move that changed the board, with a move
\* left over that would have changed it again
C8_Witness ==
  /\ pc = "done"
  /\ "violation" \in DOMAIN out
  /\ out.moveIndex + 1 < Len(arg)
  /\ out.board # inputAtCall
  /\ Applied(inputAtCall, arg, Len(arg)) # out.board

\* the Moves of a list of forced moves
MovesOf(forced) == [k \in 1..Len(forced) |-> forced[k].move]

\* C5: when trySolveByNegation returns, every recorded move is what
\* findMoveByNegation returned on the board before it, and the returned
\* board is the input with the recorded moves applied in order.  If applying
\* a move brought a violation about, that move is the last one recorded, the
\* returned violation is what validateBoard yields on the returned board and
\* findMoveByNegation was not called again; otherwise the returned violation
\* is null.
C5_SolveStopsOnViolation ==
  pc = "done" =>
    LET forced == out.moves
        n == Len(forced)
        list == MovesOf(forced)
        final == Applied(inputAtCall, list, n)
    IN /\ out.board = final
       /\ \A k \in 1..n :
            forced[k] = findMoveByNegation(Applied(inputAtCall, list, k - 1))
       /\ \A k \in 1..(n - 1) :
            validateBoard(Applied(inputAtCall, list, k)) = NULL
       /\ IF n >= 1 /\ validateBoard(final) # NULL
          THEN /\ out.unexpectedViolation = validateBoard(final)
               /\ findCalls = n
          ELSE /\ out.unexpectedViolation = NULL
               /\ findCalls = n + 1

\* the second recorded move broke a rule
C5_Witness ==
  /\ pc = "done"
  /\ out.unexpectedViolation # NULL
  /\ Len(out.moves) >= 2

\* C10: on a board that violates no rule, the board trySolveByNegation
\* holds at the start of each iteration violates no rule, and so does the
\* board it returns with a null violation.  Every recorded move fills a cell
\* that was empty on the board it was applied to, so each recorded move
\* lowers the number of empty cells by one.
C10_SolveKeepsValid ==
  /\ validateBoard(inputAtCall) = NULL =>
       /\ pc = "loop" => validateBoard(currentBoard) = NULL
       /\ (pc = "done" /\ out.unexpectedViolation = NULL) =>
            validateBoard(out.board) = NULL
  /\ pc = "loop" =>
       /\ Filled(currentBoard) = Filled(inputAtCall) + Len(moves)
       /\ \A k \in 1..Len(moves) :
            Applied(inputAtCall, MovesOf(moves), k - 1)
              [moves[k].move.row + 1][moves[k].move.column + 1] = Grey
  /\ pc = "done" =>
       /\ Filled(out.board) = Filled(inputAtCall) + Len(out.moves)
       /\ \A k \in 1..Len(out.moves) :
            Applied(inputAtCall, MovesOf(out.moves), k - 1)
              [out.moves[k].move.row + 1][out.moves[k].move.column + 1] = Grey

\* a board that violates no rule, returned with two cells more filled and
\* no violation
C10_Witness ==
  /\ pc = "done"
  /\ validateBoard(inputAtCall) = NULL
  /\ out.unexpectedViolation = NULL
  /\ Len(out.moves) >= 2
  /\ Filled(out.board) = Filled(inputAtCall) + 2

\* the loop of trySolveByNegation has run at most board.length ^ 2 times,
\* which is at most the square of the length of a row
C4_Bound ==
  /\ moveCount <= Len(board) * Len(board)
  /\ Len(moves) <= Len(board) * Len(board)
  /\ Len(moves) <= Len(board[1]) * Len(board[1])
  /\ pc = "done" => out.moves = moves

\* C4: on every rectangular board, square or not, violating a rule or not,
\* trySolveByNegation comes to an end, having run its loop at most
\* side ^ 2 times, so that it records at most side ^ 2 moves.  It ends by
\* returning, or, where the column view reads past the end of the rows of a
\* board of two rows, by the TypeError that positionVectors raises.
C4_SolveTerminates == []C4_Bound /\ <>(pc \in {"done", "threw"})

\* the loop ends at its bound on a board that is not square, with a move
\* found and not played
C4_Witness ==
  /\ pc = "done"
  /\ Len(board) # Len(board[1])
  /\ nextMove # NULL
  /\ out.unexpectedViolation = NULL
  /\ Len(out.moves) = Len(board) * Len(board)

====
